---- MODULE Spec2Model ----
(***************************************************************************)
(* Model of nebula's GetStatsHandler (src/webservice/GetStatsHandler.cpp): *)
(* the per-request proxygen handler that answers GET /stats.               *)
(*                                                                         *)
(* Text is modelled with TLA+ strings; Len, SubSeq and \o act on them      *)
(* character by character, so splitting, decimal conversion and JSON       *)
(* escaping are computed, not assumed.                                     *)
(***************************************************************************)
EXTENDS Integers, Sequences, FiniteSets, TLC

----------------------------------------------------------------------------
(* Bounds of the model. *)

\* longest value of the "stats" query parameter that is enumerated
MaxLen == 3

----------------------------------------------------------------------------
(* Inputs. *)

\* characters the enumerated "stats" values are built from
Alphabet == {"a", "b", ","}

RECURSIVE StringsUpTo(_)
StringsUpTo(n) ==
    IF n = 0 THEN {""}
    ELSE LET S == StringsUpTo(n - 1)
         IN  S \cup {s \o c : s \in S, c \in Alphabet}

\* further "stats" values: an empty segment between two names, a name holding
\* '=', a name holding a line break
ExtraStats == {"a,,b", "a=b,a", "a\nb"}

StatsValues == StringsUpTo(MaxLen) \cup ExtraStats

\* method strings of incoming requests; PROPFIND passes the HTTP/1.x parser
\* but is not a member of proxygen's HTTPMethod enumeration
MethodStrings == {"GET", "POST", "PROPFIND"}

HTTPMethodEnum == {"GET", "POST", "OPTIONS", "DELETE", "HEAD", "CONNECT",
                   "PUT", "TRACE", "PATCH"}

\* values of the "format" query parameter
FormatValues == {"json", "monitor", "JSON"}

\* an HTTPMessage as the handler sees it: the method string and the two query
\* parameters it looks at (hasX = FALSE: the parameter is absent)
Requests ==
    {[method |-> m, hasFormat |-> TRUE, format |-> f, hasStats |-> TRUE, stats |-> s] :
        m \in MethodStrings, f \in FormatValues, s \in StatsValues}
    \cup
    {[method |-> m, hasFormat |-> FALSE, format |-> "", hasStats |-> TRUE, stats |-> s] :
        m \in MethodStrings, s \in StatsValues}
    \cup
    {[method |-> m, hasFormat |-> TRUE, format |-> f, hasStats |-> FALSE, stats |-> ""] :
        m \in MethodStrings, f \in FormatValues}
    \cup
    {[method |-> m, hasFormat |-> FALSE, format |-> "", hasStats |-> FALSE, stats |-> ""] :
        m \in MethodStrings}

NoRequest == [method |-> "", hasFormat |-> FALSE, format |-> "",
              hasStats |-> FALSE, stats |-> ""]

\* epoch seconds ::time(NULL) may return
Nows == {0, 59, 60, 1700000123}

----------------------------------------------------------------------------
(* Text conversions. *)

Digit(d) == SubSeq("0123456789", d + 1, d + 1)

RECURSIVE NatToStr(_)
NatToStr(n) == IF n < 10 THEN Digit(n) ELSE NatToStr(n \div 10) \o Digit(n % 10)

\* decimal text of an integer (operator<<, folly::to<std::string>, json dump)
IntToStr(n) == IF n < 0 THEN "-" \o NatToStr(-n) ELSE NatToStr(n)

IsDigit(c) == \E d \in 0..9 : c = Digit(d)

DigitValue(c) == CHOOSE d \in 0..9 : c = Digit(d)

RECURSIVE DigitsToNat(_)
DigitsToNat(s) ==
    IF Len(s) = 0 THEN 0
    ELSE 10 * DigitsToNat(SubSeq(s, 1, Len(s) - 1)) + DigitValue(SubSeq(s, Len(s), Len(s)))

AllDigits(s) == Len(s) > 0 /\ \A i \in 1..Len(s) : IsDigit(SubSeq(s, i, i))

\* folly::to<int64_t>(string): a sign and digits, or a ConversionError
StrToInt(s) ==
    IF AllDigits(s) THEN [threw |-> FALSE, value |-> DigitsToNat(s)]
    ELSE IF Len(s) > 1 /\ SubSeq(s, 1, 1) = "-" /\ AllDigits(SubSeq(s, 2, Len(s)))
    THEN [threw |-> FALSE, value |-> 0 - DigitsToNat(SubSeq(s, 2, Len(s)))]
    ELSE IF Len(s) > 1 /\ SubSeq(s, 1, 1) = "+" /\ AllDigits(SubSeq(s, 2, Len(s)))
    THEN [threw |-> FALSE, value |-> DigitsToNat(SubSeq(s, 2, Len(s)))]
    ELSE [threw |-> TRUE, value |-> 0]

\* the pieces of s from position i on, cur being the piece read so far
RECURSIVE SplitFrom(_, _, _, _)
SplitFrom(s, i, cur, ignoreEmpty) ==
    LET piece == IF cur = "" /\ ignoreEmpty THEN <<>> ELSE <<cur>>
    IN  IF i > Len(s) THEN piece
        ELSE IF SubSeq(s, i, i) = ","
        THEN piece \o SplitFrom(s, i + 1, "", ignoreEmpty)
        ELSE SplitFrom(s, i + 1, cur \o SubSeq(s, i, i), ignoreEmpty)

folly_split_keepEmpty(s, out) == out \o SplitFrom(s, 1, "", FALSE)

\* folly::split(",", s, out, true): appends the non-empty pieces to out
folly_split(s, out) == out \o SplitFrom(s, 1, "", TRUE)

\* escaping of a JSON string's characters
EscapeChar(c) ==
    IF c = "\n" THEN "\\n"
    ELSE IF c = "\"" THEN "\\\""
    ELSE IF c = "\\" THEN "\\\\"
    ELSE c

RECURSIVE JsonEscape(_)
JsonEscape(s) ==
    IF Len(s) = 0 THEN ""
    ELSE EscapeChar(SubSeq(s, 1, 1)) \o JsonEscape(SubSeq(s, 2, Len(s)))

Quote(s) == "\"" \o JsonEscape(s) \o "\""

----------------------------------------------------------------------------
(* Collaborators outside GetStatsHandler.cpp. *)

\* contents of the stats registry, in its native order
Registries ==
    { <<>>,
      << [name |-> "a", value |-> 42] >>,
      << [name |-> "b", value |-> -7], [name |-> "a", value |-> 42],
         [name |-> "ab", value |-> 0] >> }

\* StatsManager::readAllValue: appends one {name: value} object per known
\* metric, in the registry's native order
readAllValue(stats, reg) ==
    stats \o [i \in 1..Len(reg) |->
                 [key |-> reg[i].name,
                  val |-> [type |-> "int64", i |-> reg[i].value, s |-> ""]]]

\* StatsManager::readValue: the value of one metric, or a failure
readValue(reg, sn) ==
    IF \E i \in 1..Len(reg) : reg[i].name = sn
    THEN [ok |-> TRUE,
          value |-> reg[CHOOSE i \in 1..Len(reg) : reg[i].name = sn].value,
          error |-> ""]
    ELSE [ok |-> FALSE, value |-> 0, error |-> "metric not found"]

\* settings of the gflag local_ip
LocalIps == {"", "10.0.0.1", "bad ip"}

FLAGS_port == 9669

FLAGS_role == "storaged"

\* NetworkUtils::getHostname
getHostname == "localhost"

\* HostAddr::toString
HostAddr_toString(host, port) == host \o ":" \o IntToStr(port)

\* NetworkUtils::validateHostOrIp
validateHostOrIp(h) ==
    IF h = "10.0.0.1"
    THEN [ok |-> TRUE, message |-> ""]
    ELSE [ok |-> FALSE, message |-> "Invalid hostname or ip"]

----------------------------------------------------------------------------
(* folly::dynamic values held in the result list. *)

dynInt(v) == [type |-> "int64", i |-> v, s |-> ""]

dynStr(t) == [type |-> "string", i |-> 0, s |-> t]

\* dynamic::asString
asString(d) == IF d.type = "int64" THEN IntToStr(d.i) ELSE d.s

\* dynamic::asInt: a string is converted, which throws unless it is a number
asInt(d) ==
    IF d.type = "int64" THEN [threw |-> FALSE, value |-> d.i] ELSE StrToInt(d.s)

----------------------------------------------------------------------------
(* The handler. *)

VARIABLES
    pc,              \* lifecycle: Start, HeadersDone, Responded, Terminated, Deleted
    lastCallback,    \* the callback proxygen invoked last
    request,         \* the HTTPMessage given to onRequest
    err_,            \* GetStatsHandler::err_
    returnJson_,     \* GetStatsHandler::returnJson_
    returnMonitor_,  \* GetStatsHandler::returnMonitor_
    statNames_,      \* GetStatsHandler::statNames_
    registry,        \* what StatsManager holds
    FLAGS_local_ip,  \* the gflag local_ip
    regCalls,        \* calls made to StatsManager, in order
    netCalls,        \* calls made to NetworkUtils, in order
    vals,            \* the folly::dynamic array built by getStats
    formatter,       \* the formatter onEOM ran: none, json, monitor, plain
    nowtime,         \* toMonitor's nowtime
    hostName,        \* toMonitor's hostName
    stat_obj,        \* toMonitor's stat_obj, the payload entries
    responses        \* what was sent downstream with sendWithEOM

vars == <<pc, lastCallback, request, err_, returnJson_, returnMonitor_, statNames_,
          registry, FLAGS_local_ip, regCalls, netCalls, vals, formatter, nowtime,
          hostName, stat_obj, responses>>

HttpStatusCode_OK == 200

HttpStatusCode_METHOD_NOT_ALLOWED == 405

\* HTTPMessage::getMethod: the enumeration member, or nothing for a method
\* that is none of them
getMethod(headers) ==
    IF headers.method \in HTTPMethodEnum THEN {headers.method} ELSE {}

isJsonAnyCase(fmt) == fmt \in {"json", "JSON", "Json"}

\* getQueryParam("format") == "json"
isJson(fmt) == fmt = "json"

\* getQueryParam("format") == "monitor"
isMonitor(fmt) == fmt = "monitor"

\* the member defaults of a fresh handler
Init ==
    /\ pc = "Start"
    /\ lastCallback = "none"
    /\ request = NoRequest
    /\ err_ = "SUCCEEDED"
    /\ returnJson_ = FALSE
    /\ returnMonitor_ = FALSE
    /\ statNames_ = <<>>
    /\ registry \in Registries
    /\ FLAGS_local_ip \in LocalIps
    /\ regCalls = <<>>
    /\ netCalls = <<>>
    /\ vals = <<>>
    /\ formatter = "none"
    /\ nowtime = 0
    /\ hostName = ""
    /\ stat_obj = <<>>
    /\ responses = <<>>

onRequest ==
    /\ pc = "Start"
    /\ \E headers \in Requests :
        /\ request' = headers
        /\ IF getMethod(headers) = {}
           THEN \* Optional::value() throws inside a noexcept function
                /\ pc' = "Terminated"
                /\ UNCHANGED <<err_, returnJson_, returnMonitor_, statNames_>>
           ELSE IF getMethod(headers) # {"GET"}
           THEN /\ pc' = "HeadersDone"
                /\ err_' = "E_UNSUPPORTED_METHOD"
                /\ UNCHANGED <<returnJson_, returnMonitor_, statNames_>>
           ELSE /\ pc' = "HeadersDone"
                /\ returnJson_' =
                       IF headers.hasFormat THEN isJson(headers.format) ELSE returnJson_
                /\ returnMonitor_' =
                       IF headers.hasFormat THEN isMonitor(headers.format)
                       ELSE returnMonitor_
                /\ statNames_' =
                       IF headers.hasStats THEN folly_split(headers.stats, statNames_)
                       ELSE statNames_
                /\ UNCHANGED err_
    /\ lastCallback' = "onRequest"
    /\ UNCHANGED <<registry, FLAGS_local_ip, regCalls, netCalls, vals, formatter,
                   nowtime, hostName, stat_obj, responses>>

onBody ==
    /\ pc = "HeadersDone"
    /\ lastCallback' = "onBody"
    /\ UNCHANGED <<pc, request, err_, returnJson_, returnMonitor_, statNames_,
                   registry, FLAGS_local_ip, regCalls, netCalls, vals, formatter,
                   nowtime, hostName, stat_obj, responses>>

onUpgrade ==
    /\ pc = "HeadersDone"
    /\ lastCallback' = "onUpgrade"
    /\ UNCHANGED <<pc, request, err_, returnJson_, returnMonitor_, statNames_,
                   registry, FLAGS_local_ip, regCalls, netCalls, vals, formatter,
                   nowtime, hostName, stat_obj, responses>>

----------------------------------------------------------------------------
(* getStats and the formatters. *)

\* addOneStat(vals, statName, int64_t statValue)
addOneStat(stats, statName, statValue) ==
    Append(stats, [key |-> statName, val |-> dynInt(statValue)])

addOneStatError_dropped(stats, statName, error) == stats

\* addOneStat(vals, statName, const std::string& error)
addOneStatError(stats, statName, error) ==
    Append(stats, [key |-> statName, val |-> dynStr(error)])

\* the loop over statNames_ from index i on; acc holds the array built so far
\* and the registry calls made so far
RECURSIVE getStatsLoop(_, _, _, _)
getStatsLoop(names, i, reg, acc) ==
    IF i > Len(names) THEN acc
    ELSE LET sn     == names[i]
             status == readValue(reg, sn)
             calls  == Append(acc.calls, [op |-> "readValue", name |-> sn])
         IN  IF status.ok
             THEN getStatsLoop(names, i + 1, reg,
                               [stats |-> addOneStat(acc.stats, sn, status.value),
                                calls |-> calls])
             ELSE getStatsLoop(names, i + 1, reg,
                               [stats |-> addOneStatError(acc.stats, sn, status.error),
                                calls |-> calls])

getStats_emptyWhenNoNames(names, reg) ==
    IF Len(names) = 0
    THEN [stats |-> <<>>, calls |-> <<>>]
    ELSE getStatsLoop(names, 1, reg, [stats |-> <<>>, calls |-> <<>>])

\* GetStatsHandler::getStats
getStats(names, reg) ==
    IF Len(names) = 0
    THEN [stats |-> readAllValue(<<>>, reg),
          calls |-> << [op |-> "readAllValue", name |-> ""] >>]
    ELSE getStatsLoop(names, 1, reg, [stats |-> <<>>, calls |-> <<>>])

RECURSIVE toStrFrom(_, _)
toStrFrom(stats, i) ==
    IF i > Len(stats) THEN ""
    ELSE stats[i].key \o "=" \o asString(stats[i].val) \o "\n" \o toStrFrom(stats, i + 1)

RECURSIVE toStr_valuesOnly(_)
toStr_valuesOnly(stats) ==
    IF Len(stats) = 0 THEN ""
    ELSE (IF Head(stats).val.type = "int64"
          THEN Head(stats).key \o "=" \o asString(Head(stats).val) \o "\n"
          ELSE "") \o toStr_valuesOnly(Tail(stats))

\* GetStatsHandler::toStr
toStr(stats) == toStrFrom(stats, 1)

\* a dynamic value as JSON text: a number bare, a string quoted
JsonValue(d) == IF d.type = "int64" THEN IntToStr(d.i) ELSE Quote(d.s)

RECURSIVE PrettyElements(_, _)
PrettyElements(stats, i) ==
    IF i > Len(stats) THEN ""
    ELSE "  {\n    " \o Quote(stats[i].key) \o ": " \o JsonValue(stats[i].val) \o "\n  }"
         \o (IF i < Len(stats) THEN ",\n" ELSE "\n")
         \o PrettyElements(stats, i + 1)

\* folly::toPrettyJson of the result array
toPrettyJson(stats) ==
    IF Len(stats) = 0 THEN "[]" ELSE "[\n" \o PrettyElements(stats, 1) \o "]"

reportTimestamp_notFloored(now) == now

\* report_timestamp = nowtime - (nowtime % 60)
reportTimestamp(now) == now - (now % 60)

resolveHost_unvalidated(local_ip) ==
    IF local_ip = ""
    THEN [ok |-> TRUE, hostName |-> getHostname, message |-> "",
          calls |-> << "getHostname" >>]
    ELSE [ok |-> TRUE, hostName |-> local_ip, message |-> "", calls |-> <<>>]

\* toMonitor's choice of hostName
resolveHost(local_ip) ==
    IF local_ip = ""
    THEN [ok |-> TRUE, hostName |-> getHostname, message |-> "",
          calls |-> << "getHostname" >>]
    ELSE LET status == validateHostOrIp(local_ip)
         IN  IF ~status.ok
             THEN [ok |-> FALSE, hostName |-> "", message |-> status.message,
                   calls |-> << "validateHostOrIp" >>]
             ELSE [ok |-> TRUE, hostName |-> local_ip, message |-> "",
                   calls |-> << "validateHostOrIp" >>]

\* the loop filling stat_obj from element i on; asInt throwing ends it
RECURSIVE monitorLoop(_, _, _, _, _)
monitorLoop(stats, i, metric_obj, common_tag_str, acc) ==
    IF i > Len(stats) THEN [threw |-> FALSE, stat_obj |-> acc]
    ELSE LET v == asInt(stats[i].val)
         IN  IF v.threw THEN [threw |-> TRUE, stat_obj |-> acc]
             ELSE monitorLoop(stats, i + 1, metric_obj, common_tag_str,
                      Append(acc,
                             [counterType |-> metric_obj.counterType,
                              endpoint    |-> metric_obj.endpoint,
                              step        |-> metric_obj.step,
                              timestamp   |-> metric_obj.timestamp,
                              metric      |-> "pv",
                              value       |-> v.value,
                              tags        |-> common_tag_str \o ",type=" \o stats[i].key]))

\* one payload entry as nlohmann::json dumps it: compact, keys sorted
DumpEntry(e) ==
    "{\"counterType\":" \o Quote(e.counterType)
    \o ",\"endpoint\":" \o Quote(e.endpoint)
    \o ",\"metric\":" \o Quote(e.metric)
    \o ",\"step\":" \o IntToStr(e.step)
    \o ",\"tags\":" \o Quote(e.tags)
    \o ",\"timestamp\":" \o IntToStr(e.timestamp)
    \o ",\"value\":" \o IntToStr(e.value)
    \o "}"

RECURSIVE DumpEntries(_, _)
DumpEntries(entries, i) ==
    IF i > Len(entries) THEN ""
    ELSE DumpEntry(entries[i]) \o (IF i < Len(entries) THEN "," ELSE "")
         \o DumpEntries(entries, i + 1)

\* stat_obj.dump()
Dump(entries) == "[" \o DumpEntries(entries, 1) \o "]"

\* GetStatsHandler::toMonitor
toMonitor(stats, now, local_ip) ==
    LET report_timestamp == reportTimestamp(now)
        host == resolveHost(local_ip)
    IN  IF ~host.ok
        THEN [threw |-> FALSE, body |-> host.message, hostName |-> host.hostName,
              calls |-> host.calls, stat_obj |-> <<>>]
        ELSE LET localhost == HostAddr_toString(host.hostName, FLAGS_port)
                 common_tag_str == "project=nebula" \o ",city=jd" \o ",ip_port="
                                   \o localhost \o ",module=" \o FLAGS_role
                 metric_obj == [endpoint |-> localhost, step |-> 60,
                                counterType |-> "GAUGE",
                                timestamp |-> report_timestamp]
                 loop == monitorLoop(stats, 1, metric_obj, common_tag_str, <<>>)
             IN  [threw |-> loop.threw,
                  body |-> IF loop.threw THEN "" ELSE Dump(loop.stat_obj),
                  hostName |-> host.hostName, calls |-> host.calls,
                  stat_obj |-> loop.stat_obj]

onEOM ==
    /\ pc = "HeadersDone"
    /\ lastCallback' = "onEOM"
    /\ IF err_ = "E_UNSUPPORTED_METHOD"
       THEN /\ responses' = Append(responses,
                                   [status |-> HttpStatusCode_METHOD_NOT_ALLOWED,
                                    body |-> ""])
            /\ pc' = "Responded"
            /\ UNCHANGED <<regCalls, netCalls, vals, formatter, nowtime, hostName,
                           stat_obj>>
       ELSE LET read == getStats(statNames_, registry)
            IN  /\ vals' = read.stats
                /\ regCalls' = regCalls \o read.calls
                /\ IF returnJson_
                   THEN /\ formatter' = "json"
                        /\ responses' = Append(responses,
                                               [status |-> HttpStatusCode_OK,
                                                body |-> toPrettyJson(read.stats)])
                        /\ pc' = "Responded"
                        /\ UNCHANGED <<netCalls, nowtime, hostName, stat_obj>>
                   ELSE IF returnMonitor_
                   THEN \E now \in Nows :
                          LET m == toMonitor(read.stats, now, FLAGS_local_ip)
                          IN  /\ formatter' = "monitor"
                              /\ nowtime' = now
                              /\ netCalls' = netCalls \o m.calls
                              /\ hostName' = m.hostName
                              /\ stat_obj' = m.stat_obj
                              /\ IF m.threw
                                 THEN \* the exception leaves the noexcept onEOM
                                      /\ pc' = "Terminated"
                                      /\ UNCHANGED responses
                                 ELSE /\ pc' = "Responded"
                                      /\ responses' =
                                            Append(responses,
                                                   [status |-> HttpStatusCode_OK,
                                                    body |-> m.body])
                   ELSE /\ formatter' = "plain"
                        /\ responses' = Append(responses,
                                               [status |-> HttpStatusCode_OK,
                                                body |-> toStr(read.stats)])
                        /\ pc' = "Responded"
                        /\ UNCHANGED <<netCalls, nowtime, hostName, stat_obj>>
    /\ UNCHANGED <<request, err_, returnJson_, returnMonitor_, statNames_, registry,
                   FLAGS_local_ip>>

\* delete this: the handler is gone, what it sent stays sent
requestComplete ==
    /\ pc = "Responded"
    /\ pc' = "Deleted"
    /\ lastCallback' = "requestComplete"
    /\ UNCHANGED <<request, err_, returnJson_, returnMonitor_, statNames_, registry,
                   FLAGS_local_ip, regCalls, netCalls, vals, formatter, nowtime,
                   hostName, stat_obj, responses>>

\* logs the error and deletes the handler
onError ==
    /\ pc \in {"HeadersDone", "Responded"}
    /\ pc' = "Deleted"
    /\ lastCallback' = "onError"
    /\ UNCHANGED <<request, err_, returnJson_, returnMonitor_, statNames_, registry,
                   FLAGS_local_ip, regCalls, netCalls, vals, formatter, nowtime,
                   hostName, stat_obj, responses>>

Next ==
    \/ onRequest
    \/ onBody
    \/ onUpgrade
    \/ onEOM
    \/ requestComplete
    \/ onError

Spec == Init /\ [][Next]_vars

----------------------------------------------------------------------------
(* Vocabulary of the properties. *)

IsGet == request # NoRequest /\ request.method = "GET"

IsNonGet == request # NoRequest /\ request.method # "GET"

\* onEOM has run to its end and the handler answered
Answered == pc = "Responded" \/ (pc = "Deleted" /\ Len(responses) > 0)

\* piece occurs in text
Contains(text, piece) ==
    \E i \in 1..(Len(text) - Len(piece) + 1) :
        SubSeq(text, i, i + Len(piece) - 1) = piece

StartsWith(text, piece) ==
    Len(text) >= Len(piece) /\ SubSeq(text, 1, Len(piece)) = piece

EndsWith(text, piece) ==
    Len(text) >= Len(piece)
    /\ SubSeq(text, Len(text) - Len(piece) + 1, Len(text)) = piece

CountOf(text, c) == Cardinality({i \in 1..Len(text) : SubSeq(text, i, i) = c})

\* the comma-separated segments of s, stated by position: the cuts are the
\* commas and the two ends, a non-empty segment starts right after a cut that
\* is not followed by another cut and runs to the next cut
Cuts(s) == {i \in 1..Len(s) : SubSeq(s, i, i) = ","} \cup {0, Len(s) + 1}

SegStarts(s) == {q + 1 : q \in {c \in Cuts(s) : c <= Len(s) /\ (c + 1) \notin Cuts(s)}}

SegEnd(s, st) ==
    (CHOOSE c \in Cuts(s) : c > st /\ \A d \in Cuts(s) : d > st => c <= d) - 1

NthStart(s, k) ==
    CHOOSE st \in SegStarts(s) : Cardinality({t \in SegStarts(s) : t < st}) = k - 1

Segment(s, k) == SubSeq(s, NthStart(s, k), SegEnd(s, NthStart(s, k)))

Known(n) == \E i \in 1..Len(registry) : registry[i].name = n

RegValue(n) == registry[CHOOSE i \in 1..Len(registry) : registry[i].name = n].value

\* what the plain and JSON bodies show for result k: the decimal text of a
\* value, the description of a failure
ShownText(k) ==
    IF vals[k].val.type = "int64" THEN IntToStr(vals[k].val.i) ELSE vals[k].val.s

ValueCount == Cardinality({k \in 1..Len(vals) : vals[k].val.type = "int64"})

ValidHost == FLAGS_local_ip = "" \/ validateHostOrIp(FLAGS_local_ip).ok

\* offset of record k in a body made of the records key=text\n of the results
RECURSIVE RecordOffset(_)
RecordOffset(k) ==
    IF k = 1 THEN 0
    ELSE RecordOffset(k - 1) + Len(vals[k - 1].key) + Len(ShownText(k - 1)) + 2

\* length of the lines name=value\n of the resolved ones among results 1..k
RECURSIVE ResolvedLength(_)
ResolvedLength(k) ==
    IF k = 0 THEN 0
    ELSE ResolvedLength(k - 1)
         + (IF vals[k].val.type = "int64"
            THEN Len(vals[k].key) + Len(ShownText(k)) + 2 ELSE 0)

\* record k of such a body, without its line break
RecordText(body, k) ==
    SubSeq(body, RecordOffset(k) + 1,
           RecordOffset(k) + Len(vals[k].key) + Len(ShownText(k)) + 1)

\* position of the first '=' of a line (0: none)
FirstEq(line) ==
    IF \E i \in 1..Len(line) : SubSeq(line, i, i) = "="
    THEN CHOOSE i \in 1..Len(line) :
            /\ SubSeq(line, i, i) = "="
            /\ \A j \in 1..(i - 1) : SubSeq(line, j, j) # "="
    ELSE 0

NameOfLine(line) == SubSeq(line, 1, FirstEq(line) - 1)

ValueOfLine(line) == SubSeq(line, FirstEq(line) + 1, Len(line))

----------------------------------------------------------------------------
(* Properties. *)

\* C1: a request whose method is not GET is answered by onEOM with status 405
\* and an empty body, and neither the registry is read nor a formatter run;
\* the handler never ends the process on such a request.
C1_NonGetAnswered405 ==
    IsNonGet =>
        /\ pc # "Terminated"
        /\ regCalls = <<>>
        /\ formatter = "none"
        /\ (lastCallback = "onEOM" =>
               responses = << [status |-> HttpStatusCode_METHOD_NOT_ALLOWED,
                               body |-> ""] >>)

\* C2: a run onRequest, onBody*, onEOM emits exactly one response, in onEOM:
\* none is out before onEOM, exactly one is out once onEOM has run, and no
\* second one follows.
C2_ExactlyOneResponse ==
    /\ (lastCallback \in {"none", "onRequest", "onBody", "onUpgrade"} =>
           Len(responses) = 0)
    /\ (lastCallback = "onEOM" => Len(responses) = 1)
    /\ Len(responses) <= 1

\* C3: for a GET request the formatter that builds the body is fixed by the
\* format parameter alone: exactly "json" gives pretty JSON, exactly "monitor"
\* the monitor payload, anything else or no parameter the plain body; the
\* JSON and monitor selections are never both set.
C3_FormatSelection ==
    /\ ~(returnJson_ /\ returnMonitor_)
    /\ (IsGet /\ formatter # "none") =>
          /\ formatter =
                IF request.hasFormat /\ request.format = "json" THEN "json"
                ELSE IF request.hasFormat /\ request.format = "monitor" THEN "monitor"
                ELSE "plain"
          /\ (Answered /\ formatter = "plain") =>
                (responses[1].body = "" \/ EndsWith(responses[1].body, "\n"))
          /\ (Answered /\ formatter = "json") =>
                (responses[1].body = "[]" \/ StartsWith(responses[1].body, "[\n"))

C3_Witness ==
    /\ IsGet /\ request.hasFormat /\ request.format = "JSON"
    /\ pc = "Responded" /\ formatter = "plain" /\ Len(vals) > 0

\* C4: for a GET request whose stats parameter has a non-empty segment, the
\* resolver yields one result per non-empty segment, in the order of the
\* segments, named after them, and one readValue call per segment.
C4_OneResultPerSegment ==
    (IsGet /\ request.hasStats /\ SegStarts(request.stats) # {} /\ formatter # "none") =>
        /\ Len(vals) = Cardinality(SegStarts(request.stats))
        /\ \A k \in 1..Len(vals) : vals[k].key = Segment(request.stats, k)
        /\ Len(regCalls) = Len(vals)
        /\ \A k \in 1..Len(regCalls) :
              regCalls[k] = [op |-> "readValue", name |-> Segment(request.stats, k)]

C4_Witness ==
    /\ IsGet /\ request.hasStats /\ request.stats = "a,,b"
    /\ registry = <<>>
    /\ Len(vals) = 2 /\ vals[1].key = "a" /\ vals[2].key = "b"

\* C5: with format=monitor and a valid host the request is answered with
\* status 200 and the payload has exactly one entry per result that is an
\* integer value, none for a metric whose resolution failed.
C5_MonitorSkipsFailures ==
    (IsGet /\ formatter = "monitor" /\ ValidHost) =>
        /\ pc # "Terminated"
        /\ Len(responses) = 1
        /\ responses[1].status = HttpStatusCode_OK
        /\ Len(stat_obj) = ValueCount

\* C6: with explicit names and format json or plain a failed lookup leaves
\* the status at 200; the result at the metric's position holds the failure's
\* description as a string, a resolved metric holds its integer, and the body
\* shows the one quoted (JSON) or as text and the other as a number.
C6_FailureIsData ==
    (IsGet /\ Len(statNames_) > 0 /\ formatter \in {"json", "plain"}) =>
        /\ Answered
        /\ Len(responses) = 1
        /\ responses[1].status = HttpStatusCode_OK
        /\ Len(vals) = Len(statNames_)
        /\ \A k \in 1..Len(statNames_) :
              LET n == statNames_[k]
              IN  /\ Len(vals) >= k
                  /\ vals[k].key = n
                  /\ IF Known(n)
                     THEN /\ vals[k].val.type = "int64"
                          /\ vals[k].val.i = RegValue(n)
                          /\ Contains(responses[1].body,
                                 IF formatter = "json"
                                 THEN Quote(n) \o ": " \o IntToStr(RegValue(n)) \o "\n"
                                 ELSE n \o "=" \o IntToStr(RegValue(n)) \o "\n")
                     ELSE /\ vals[k].val.type = "string"
                          /\ vals[k].val.s = readValue(registry, n).error
                          /\ Contains(responses[1].body,
                                 IF formatter = "json"
                                 THEN Quote(n) \o ": \""
                                      \o readValue(registry, n).error \o "\"\n"
                                 ELSE n \o "=" \o readValue(registry, n).error \o "\n")

C6_Witness ==
    /\ IsGet /\ formatter = "json" /\ pc = "Responded"
    /\ Len(vals) = 2
    /\ vals[1].val.type = "string" /\ vals[2].val.type = "int64"

\* C7: every entry of a monitor payload carries the time read, floored to the
\* minute: a multiple of 60, at most now, more than now - 60, and the same in
\* all entries; the body shows it.
C7_TimestampFloored ==
    formatter = "monitor" =>
        \A k \in 1..Len(stat_obj) :
            /\ stat_obj[k].timestamp % 60 = 0
            /\ stat_obj[k].timestamp <= nowtime
            /\ stat_obj[k].timestamp > nowtime - 60
            /\ stat_obj[k].timestamp = stat_obj[1].timestamp
            /\ Answered =>
                  Contains(responses[1].body,
                           "\"timestamp\":" \o IntToStr(nowtime - (nowtime % 60)) \o ",")

C7_Witness ==
    /\ formatter = "monitor" /\ pc = "Responded"
    /\ nowtime = 1700000123
    /\ Len(stat_obj) >= 2
    /\ stat_obj[2].timestamp = 1700000100

\* C8: in toMonitor a non-empty local_ip that fails validation ends the
\* formatting before any entry is built, and the answer is 200 with the
\* validation message as its body; an empty local_ip is not validated and the
\* hostname is used; a valid one is used as the host.
C8_HostValidation ==
    formatter = "monitor" =>
        IF FLAGS_local_ip = ""
        THEN /\ netCalls = << "getHostname" >>
             /\ hostName = getHostname
             /\ \A k \in 1..Len(stat_obj) :
                   stat_obj[k].endpoint = getHostname \o ":" \o IntToStr(FLAGS_port)
        ELSE IF ~validateHostOrIp(FLAGS_local_ip).ok
        THEN /\ netCalls = << "validateHostOrIp" >>
             /\ stat_obj = <<>>
             /\ Answered
             /\ responses = << [status |-> HttpStatusCode_OK,
                                body |-> validateHostOrIp(FLAGS_local_ip).message] >>
        ELSE /\ netCalls = << "validateHostOrIp" >>
             /\ hostName = FLAGS_local_ip
             /\ \A k \in 1..Len(stat_obj) :
                   stat_obj[k].endpoint = FLAGS_local_ip \o ":" \o IntToStr(FLAGS_port)

C8_Witness ==
    /\ formatter = "monitor" /\ pc = "Responded"
    /\ FLAGS_local_ip = "bad ip"
    /\ Len(vals) = 2 /\ vals[1].val.type = "int64" /\ vals[2].val.type = "string"
    /\ responses[1].status = HttpStatusCode_OK
    /\ responses[1].body = "Invalid hostname or ip"

\* C9 as claimed: the plain body is made of one line name=value per
\* successfully resolved metric and of nothing else, there are as many lines
\* as results, and each line split at its first '=' gives back the name and
\* the decimal text of the value.
C9_PlainLinesOfResolvedOnly ==
    (formatter = "plain" /\ Answered) =>
        LET body == responses[1].body
        IN  /\ Len(body) = ResolvedLength(Len(vals))
            /\ CountOf(body, "\n") = Len(vals)
            /\ \A k \in 1..Len(vals) :
                  vals[k].val.type = "int64" =>
                      /\ NameOfLine(RecordText(body, k)) = vals[k].key
                      /\ ValueOfLine(RecordText(body, k)) = IntToStr(vals[k].val.i)

\* C9 amended: the plain body is the records key=text\n of all results in
\* order, failed ones included with their description as text; a record
\* split at its first '=' gives back name and text when the name holds no
\* '='; there are as many line breaks as results when no name holds one.
C9_PlainRecordPerResult ==
    (formatter = "plain" /\ Answered) =>
        LET body == responses[1].body
        IN  /\ Len(body) = RecordOffset(Len(vals) + 1)
            /\ \A k \in 1..Len(vals) :
                  /\ RecordText(body, k) = vals[k].key \o "=" \o ShownText(k)
                  /\ SubSeq(body, RecordOffset(k + 1), RecordOffset(k + 1)) = "\n"
                  /\ ~Contains(vals[k].key, "=") =>
                        /\ NameOfLine(RecordText(body, k)) = vals[k].key
                        /\ ValueOfLine(RecordText(body, k)) = ShownText(k)
            /\ (\A k \in 1..Len(vals) :
                    ~Contains(vals[k].key, "\n") /\ ~Contains(ShownText(k), "\n"))
               => CountOf(body, "\n") = Len(vals)

C9_Witness ==
    /\ formatter = "plain" /\ pc = "Responded"
    /\ Len(vals) = 2
    /\ vals[1].key = "a=b" /\ vals[1].val.type = "string"
    /\ vals[2].key = "a" /\ vals[2].val.type = "int64"
    /\ responses[1].body = "a=b=metric not found\na=42\n"

\* C10: a stats parameter without a non-empty segment leaves the name list
\* empty, and the handler reads all metrics with one readAllValue call and
\* makes no readValue call: the results are the registry's, in its order.
C10_NoSegmentReadsAll ==
    (IsGet /\ request.hasStats /\ SegStarts(request.stats) = {} /\ formatter # "none") =>
        /\ Len(statNames_) = 0
        /\ regCalls = << [op |-> "readAllValue", name |-> ""] >>
        /\ Len(vals) = Len(registry)
        /\ \A k \in 1..Len(vals) :
              /\ vals[k].key = registry[k].name
              /\ vals[k].val.type = "int64"
              /\ vals[k].val.i = registry[k].value

C10_Witness ==
    /\ IsGet /\ request.hasStats /\ request.stats = ",,"
    /\ pc = "Responded"
    /\ Len(vals) = 3
    /\ regCalls = << [op |-> "readAllValue", name |-> ""] >>

====
